---------------------------- MODULE Spec2Model ----------------------------
(***************************************************************************)
(* A model of the compound-error derive macro (src/src/lib.rs) and of its  *)
(* directive parser (src/src/util.rs).                                     *)
(*                                                                         *)
(* The syntax trees the macro receives (syn::DeriveInput, syn::Attribute,  *)
(* syn::NestedMeta, syn::Path) are records; text (string literals, token   *)
(* streams of types, rendered messages) is a sequence of tokens, so that   *)
(* parsing a literal, printing a type and formatting a message are         *)
(* computed and not assumed.  The generated code is a sequence of impl     *)
(* records, and small interpreters (SourceOf, Render, Flatten) run it.     *)
(***************************************************************************)
EXTENDS Naturals, Sequences, FiniteSets, TLC

VARIABLES
    input,      \* the DeriveInput handed to derive_compound_error
    output,     \* the result of the latest expansion of input (NoOutput before)
    prev,       \* the result of the expansion before the latest one
    pc,         \* how often input has been expanded: "start", "once", "twice"
    attrs,      \* the annotation list handed to attr_args
    known,      \* the allow-list handed to attr_args
    parsed      \* the result of attr_args(attrs, "compound_error", known)

vars == <<input, output, prev, pc, attrs, known, parsed>>

---------------------------------------------------------------------------
(* Bounds of the model.                                                    *)

MaxVariants == 2
MaxAttrs == 2
MaxEntries == 2

---------------------------------------------------------------------------
(* syn's syntax trees.                                                     *)

\* syn::Path: leading colon, segment idents, generic arguments of the last segment
MkPath(lead, segs, args) == [lead |-> lead, segs |-> segs, args |-> args]

Ident(name) == MkPath(FALSE, <<name>>, <<>>)

NoPath == MkPath(FALSE, <<>>, <<>>)

\* syn::Lit: a string literal holds its text, any other literal does not
LitStr(text) == [isStr |-> TRUE, text |-> text]

LitOther == [isStr |-> FALSE, text |-> <<>>]

\* syn::NestedMeta, with syn::Meta inlined: Path | List | NameValue | Lit
MetaPath(path) == [nm |-> "Path", path |-> path, nested |-> <<>>, lit |-> LitOther]

MetaList(path, nested) == [nm |-> "List", path |-> path, nested |-> nested, lit |-> LitOther]

MetaNameValue(path, lit) == [nm |-> "NameValue", path |-> path, nested |-> <<>>, lit |-> lit]

NestedLit(lit) == [nm |-> "Lit", path |-> NoPath, nested |-> <<>>, lit |-> lit]

\* syn::Attribute: its path, what parse_meta makes of its tokens
\* ("Err" when they are no meta), the entries of a list, and its span
MkAttr(path, meta, nested) == [path |-> path, meta |-> meta, nested |-> nested, span |-> <<0, 0>>]

\* #[compound_error( entries... )]
Group(nested) == MkAttr(Ident("compound_error"), "List", nested)

\* the spans the host parser gives the attributes of element elem
\* (0: the type, i: its i-th variant)
Spanned(elem, as) == [ai \in 1..Len(as) |-> [as[ai] EXCEPT !.span = <<elem, ai>>]]

\* syn::Path::get_ident
HasIdent(path) == ~path.lead /\ Len(path.segs) = 1 /\ path.args = <<>>

\* syn::Path::is_ident
IsIdent(path, name) == HasIdent(path) /\ path.segs[1] = name

---------------------------------------------------------------------------
(* util.rs                                                                 *)

\* util::error: a compile_error! with the message (a text, as tokens), at the span
Error(span, message) == [span |-> span, message |-> message]

\* AttrArgsError::explain
Explain(err) ==
    CASE err.kind = "InvalidArg" -> Error(err.span, <<"Invalid argument.">>)
      [] err.kind = "LitArg" -> Error(err.span, <<"Invalid first-level literal.">>)
      [] err.kind = "DupliateArg" -> Error(err.span, <<"Duplicate argument.">>)
      [] err.kind = "NoMeta" -> Error(err.span, <<"Must be of 'meta' type.">>)
      [] err.kind = "NoNestedMeta" ->
            Error(err.span, <<"Invalid name-value pair. Expected path or list.">>)

\* AttrArg::new; span is the span of path
AttrArg(path, span, values) == [path |-> path, span |-> span, values |-> values]

\* HashMap::new()
EmptyMap == [k \in {} |-> k]

ArgsOk(args) == [ok |-> TRUE, args |-> args, err |-> [kind |-> "None", span |-> <<>>]]

ArgsErr(kind, span) == [ok |-> FALSE, args |-> EmptyMap, err |-> [kind |-> kind, span |-> span]]

\* the values attr_args stores for one entry (util.rs 126-139)
ValuesOf(meta) ==
    CASE meta.nm = "Path" -> <<>>
      [] meta.nm = "List" -> meta.nested
      [] meta.nm = "NameValue" -> <<NestedLit(meta.lit)>>

\* ContainsKey with the test lost: a key is never found
ContainsKeyNever(args, key) == FALSE

\* the duplicate test of attr_args (util.rs 122)
ContainsKey(args, key) == key \in DOMAIN args

\* the allow-list lookup of attr_args (util.rs 110-120)
KnownArgKey(path, known_arg_keys) == HasIdent(path) /\ path.segs[1] \in known_arg_keys

\* the loop over the entries of one attribute (util.rs 95-142)
RECURSIVE AttrArgsNested(_, _, _, _, _)
AttrArgsNested(nested, i, span, args, known_arg_keys) ==
    IF i > Len(nested) THEN ArgsOk(args)
    ELSE LET nested_arg == nested[i] IN
         IF nested_arg.nm = "Lit" THEN ArgsErr("LitArg", Append(span, i))
         ELSE IF ~KnownArgKey(nested_arg.path, known_arg_keys)
              THEN ArgsErr("InvalidArg", Append(span, i))
         ELSE IF ContainsKey(args, nested_arg.path.segs[1])
              THEN ArgsErr("DupliateArg", Append(span, i))
         ELSE AttrArgsNested(nested, i + 1, span,
                  args @@ (nested_arg.path.segs[1] :>
                      AttrArg(nested_arg.path, Append(span, i), ValuesOf(nested_arg))),
                  known_arg_keys)

\* the loop over the attributes (util.rs 72-150)
RECURSIVE AttrArgsFrom(_, _, _, _, _)
AttrArgsFrom(attributes, ai, required_key, args, known_arg_keys) ==
    IF ai > Len(attributes) THEN ArgsOk(args)
    ELSE LET attr == attributes[ai] IN
         IF ~IsIdent(attr.path, required_key)
         THEN AttrArgsFrom(attributes, ai + 1, required_key, args, known_arg_keys)
         ELSE CASE attr.meta = "Err" -> ArgsErr("NoMeta", attr.span)
                [] attr.meta = "NameValue" -> ArgsErr("NoNestedMeta", attr.span)
                [] attr.meta = "Path" ->
                      AttrArgsFrom(attributes, ai + 1, required_key, args, known_arg_keys)
                [] attr.meta = "List" ->
                      LET r == AttrArgsNested(attr.nested, 1, attr.span, args, known_arg_keys)
                      IN  IF r.ok
                          THEN AttrArgsFrom(attributes, ai + 1, required_key, r.args,
                                            known_arg_keys)
                          ELSE r

\* util::attr_args
AttrArgsOf(attributes, required_key, known_arg_keys) ==
    AttrArgsFrom(attributes, 1, required_key, EmptyMap, known_arg_keys)

\* util::flag: TRUE/FALSE, or the failure with the span of the key
Flag(args, ident) ==
    IF ident \in DOMAIN args
    THEN IF args[ident].values # <<>>
         THEN [ok |-> FALSE, val |-> FALSE, span |-> args[ident].span]
         ELSE [ok |-> TRUE, val |-> TRUE, span |-> <<>>]
    ELSE [ok |-> TRUE, val |-> FALSE, span |-> <<>>]

\* the allow-lists derive_compound_error passes (lib.rs 141-147, 245-251)
TypeKeys == {"title", "description", "skip_display", "skip_error", "transparent"}

VariantKeys == {"inline_from", "skip_single_from", "no_source", "convert_source", "transparent"}

---------------------------------------------------------------------------
(* lib.rs: PathOrLit                                                       *)

\* the keys of from_enums: PathOrLit::Path(path) and PathOrLit::Lit(type_path);
\* the derived Eq and Hash compare the tag and the path
PathKey(path) == [tag |-> "Path", path |-> path]

LitKey(path) == [tag |-> "Lit", path |-> path]

\* PathOrLit::path: the path with the generic arguments of its last segment erased
PathOrLitPathKeepArgs(key) == key.path

PathOrLitPath(key) == [key.path EXCEPT !.args = <<>>]

RECURSIVE Join(_, _)
Join(seq, sep) ==
    IF Len(seq) = 0 THEN <<>>
    ELSE IF Len(seq) = 1 THEN <<seq[1]>>
    ELSE <<seq[1], sep>> \o Join(Tail(seq), sep)

\* ToTokens of a syn::Path (paths carry generic arguments on the last segment only)
PathTokens(path) ==
    (IF path.lead THEN <<"::">> ELSE <<>>)
    \o Join(path.segs, "::")
    \o (IF path.args = <<>> THEN <<>> ELSE <<"<">> \o Join(path.args, ",") \o <<">">>)

\* ToTokens of PathOrLit: either form prints its path
ToTokens(key) == PathTokens(key.path)

IsIdentTok(t) == t \notin {"::", "<", ">", ","}

ParseOk(path) == [ok |-> TRUE, path |-> path]

ParseErr == [ok |-> FALSE, path |-> NoPath]

\* the generic arguments of the last segment, from position i (after "<" or ",")
RECURSIVE ParseArgsFrom(_, _, _)
ParseArgsFrom(toks, i, path) ==
    IF i >= Len(toks) \/ ~IsIdentTok(toks[i]) THEN ParseErr
    ELSE LET p == [path EXCEPT !.args = Append(@, toks[i])] IN
         IF toks[i + 1] = ">" THEN (IF i + 1 = Len(toks) THEN ParseOk(p) ELSE ParseErr)
         ELSE IF toks[i + 1] = "," THEN ParseArgsFrom(toks, i + 2, p)
         ELSE ParseErr

\* the segments, from position i (the start, or after "::")
RECURSIVE ParseSegsFrom(_, _, _)
ParseSegsFrom(toks, i, path) ==
    IF i > Len(toks) \/ ~IsIdentTok(toks[i]) THEN ParseErr
    ELSE LET p == [path EXCEPT !.segs = Append(@, toks[i])] IN
         IF i = Len(toks) THEN ParseOk(p)
         ELSE IF toks[i + 1] = "::" THEN ParseSegsFrom(toks, i + 2, p)
         ELSE IF toks[i + 1] = "<" THEN ParseArgsFrom(toks, i + 2, p)
         ELSE ParseErr

\* LitStr::parse::<syn::TypePath>() on the text of a string literal
ParseTypePath(toks) ==
    IF Len(toks) > 0 /\ toks[1] = "::"
    THEN ParseSegsFrom(toks, 2, MkPath(TRUE, <<>>, <<>>))
    ELSE ParseSegsFrom(toks, 1, MkPath(FALSE, <<>>, <<>>))

---------------------------------------------------------------------------
(* lib.rs: derive_compound_error                                           *)

\* the span of the whole input (error(&original_input, ..))
InputSpan == <<0>>

\* the state of one expansion: the failure it returned with, if any, and
\* what it has accumulated
Start == [err |-> <<>>,
          from_structs |-> <<>>,
          from_enums |-> EmptyMap,
          err_sources |-> <<>>,
          display_cases |-> <<>>]

\* `return error(..)`: the expansion ends with this diagnostic
Abort(st, diag) == [st EXCEPT !.err = Append(@, diag)]

StrOk(text) == [ok |-> TRUE, text |-> text, diag |-> Error(<<>>, <<>>)]

StrErr(diag) == [ok |-> FALSE, text |-> <<>>, diag |-> diag]

\* lib.rs 152-165
Title(toplevel_args, ident) ==
    IF "title" \in DOMAIN toplevel_args
    THEN LET attr == toplevel_args["title"] IN
         IF Len(attr.values) # 1
         THEN StrErr(Error(attr.span, <<"'title' takes exactly one string argument!">>))
         ELSE IF attr.values[1].nm = "Lit" /\ attr.values[1].lit.isStr
         THEN StrOk(attr.values[1].lit.text)
         ELSE StrErr(Error(attr.span, <<"'title' argument must be a string!">>))
    ELSE StrOk(<<ident>>)

\* lib.rs 167-185
Description(toplevel_args) ==
    IF "description" \in DOMAIN toplevel_args
    THEN LET attr == toplevel_args["description"] IN
         IF Len(attr.values) # 1
         THEN StrErr(Error(attr.span, <<"'description' takes exactly one string argument!">>))
         ELSE IF attr.values[1].nm = "Lit" /\ attr.values[1].lit.isStr
         THEN StrOk(<<" (">> \o attr.values[1].lit.text \o <<")">>)
         ELSE StrErr(Error(attr.span, <<"'description' argument must be a string!">>))
    ELSE StrOk(<<>>)

\* the diagnostic of the flag! macro (lib.rs 31-37)
FlagError(flag, arg) == Error(flag.span, <<"'", arg, "' attribute takes no arguments!">>)

\* Push that keeps a variant once per key
PushOnce(from_enums, key, variant_ident) ==
    IF key \in DOMAIN from_enums
    THEN IF \E k \in 1..Len(from_enums[key]) : from_enums[key][k] = variant_ident
         THEN from_enums
         ELSE [from_enums EXCEPT ![key] = Append(@, variant_ident)]
    ELSE from_enums @@ (key :> <<variant_ident>>)

\* from_enums.entry(key).or_default().push(variant_ident)
Push(from_enums, key, variant_ident) ==
    IF key \in DOMAIN from_enums
    THEN [from_enums EXCEPT ![key] = Append(@, variant_ident)]
    ELSE from_enums @@ (key :> <<variant_ident>>)

InlineOk(from_enums) == [ok |-> TRUE, from_enums |-> from_enums]

InlineErr == [ok |-> FALSE, from_enums |-> EmptyMap]

\* the loop over the values of inline_from (lib.rs 259-291)
RECURSIVE InlineFrom(_, _, _, _)
InlineFrom(values, i, variant_ident, from_enums) ==
    IF i > Len(values) THEN InlineOk(from_enums)
    ELSE LET nested == values[i] IN
         CASE nested.nm = "Path" ->
                  InlineFrom(values, i + 1, variant_ident,
                             Push(from_enums, PathKey(nested.path), variant_ident))
           [] nested.nm = "Lit" /\ nested.lit.isStr ->
                  LET parsed_ty == ParseTypePath(nested.lit.text) IN
                  IF parsed_ty.ok
                  THEN InlineFrom(values, i + 1, variant_ident,
                                  Push(from_enums, LitKey(parsed_ty.path), variant_ident))
                  ELSE InlineErr
           [] OTHER -> InlineErr

\* lib.rs 298-302: the payload is none of the type parameters
NotPureGeneric(primitive_type_path, type_params) ==
    ~\E k \in 1..Len(type_params) : IsIdent(primitive_type_path, type_params[k])

\* PushFromStruct without the test of skip_single_from
PushFromStructAlways(from_structs, skip_single_from, primitive_type_path, variant_ident, type_params) ==
    IF NotPureGeneric(primitive_type_path, type_params)
    THEN Append(from_structs, [from |-> primitive_type_path, variant |-> variant_ident])
    ELSE from_structs

\* lib.rs 298-304
PushFromStruct(from_structs, skip_single_from, primitive_type_path, variant_ident, type_params) ==
    IF ~skip_single_from /\ NotPureGeneric(primitive_type_path, type_params)
    THEN Append(from_structs, [from |-> primitive_type_path, variant |-> variant_ident])
    ELSE from_structs

SrcOk(ret) == [ok |-> TRUE, ret |-> ret, diag |-> Error(<<>>, <<>>)]

SrcErr(diag) == [ok |-> FALSE, ret |-> [t |-> "x", conv |-> NoPath], diag |-> diag]

\* lib.rs 311-334: the expression handed to Some(..)
SrcRet(args) ==
    IF "convert_source" \in DOMAIN args
    THEN LET convert_source_attr == args["convert_source"] IN
         IF Len(convert_source_attr.values) # 1
         THEN SrcErr(Error(convert_source_attr.span,
                           <<"'convert_source' takes exactly one argument!">>))
         ELSE IF convert_source_attr.values[1].nm = "Path"
         THEN SrcOk([t |-> "call", conv |-> convert_source_attr.values[1].path])
         ELSE SrcErr(Error(convert_source_attr.span,
                           <<"The argument of 'convert_source' must be a path!">>))
    ELSE SrcOk([t |-> "x", conv |-> NoPath])

\* one arm of the match of Error::source (lib.rs 338-346)
ErrSourceArm(variant_ident, transparent, src_ret) ==
    IF transparent
    THEN [variant |-> variant_ident, t |-> "source_of_x", conv |-> NoPath]
    ELSE [variant |-> variant_ident, t |-> IF src_ret.t = "call" THEN "some_call" ELSE "some_x",
          conv |-> src_ret.conv]

\* ErrSources without the test of no_source
ErrSourcesAlways(err_sources, no_source, variant_ident, transparent, src_ret) ==
    Append(err_sources, ErrSourceArm(variant_ident, transparent, src_ret))

\* lib.rs 310-349: the arms of Error::source so far, with this variant's
ErrSources(err_sources, no_source, variant_ident, transparent, src_ret) ==
    IF ~no_source
    THEN Append(err_sources, ErrSourceArm(variant_ident, transparent, src_ret))
    ELSE err_sources

\* VariantDisplay that prints the payload also with no_source
VariantDisplayPayload(no_source, variant_ident_str) == [lit |-> FALSE, text |-> <<>>]

\* lib.rs 336 and 348: what the branch line prints
VariantDisplay(no_source, variant_ident_str) ==
    IF ~no_source THEN [lit |-> FALSE, text |-> <<>>]
    ELSE [lit |-> TRUE, text |-> <<variant_ident_str>>]

\* one arm of the match of Display::fmt (lib.rs 351-364)
DisplayCase(variant_ident, transparent, title, description, variant_display) ==
    IF transparent
    THEN [variant |-> variant_ident, t |-> "forward", title |-> <<>>, description |-> <<>>,
          variant_display |-> [lit |-> FALSE, text |-> <<>>]]
    ELSE [variant |-> variant_ident, t |-> "framed", title |-> title,
          description |-> description, variant_display |-> variant_display]

\* the body of the loop over the variants (lib.rs 206-365); ctx holds what the
\* type-level part established: type_params, transparent_enum, title, description
Variant(st, variant, ctx) ==
    LET variant_ident == variant.ident IN
    IF ~(variant.fields = "Unnamed" /\ variant.nfields = 1)
    THEN Abort(st, Error(InputSpan, <<"Variant '", variant_ident,
                                      "' must specify exactly one unnamed field!">>))
    ELSE IF variant.ty.kind # "Path"
    THEN Abort(st, Error(InputSpan, <<"Variant '", variant_ident,
             "' must specify exactly one unnamed field referencing a type!">>))
    ELSE
    LET primitive_type_path == variant.ty.path
        r == AttrArgsOf(variant.attrs, "compound_error", VariantKeys)
    IN
    IF ~r.ok THEN Abort(st, Explain(r.err))
    ELSE
    LET args == r.args
        inl == IF "inline_from" \in DOMAIN args
               THEN InlineFrom(args["inline_from"].values, 1, variant_ident, st.from_enums)
               ELSE InlineOk(st.from_enums)
    IN
    IF ~inl.ok
    THEN Abort(st, Error(args["inline_from"].span,
                         <<"'inline_from' attribute must be a list of types!">>))
    ELSE
    LET skip_single_from == Flag(args, "skip_single_from") IN
    IF ~skip_single_from.ok THEN Abort(st, FlagError(skip_single_from, "skip_single_from"))
    ELSE
    LET transparent_flag == Flag(args, "transparent") IN
    IF ~transparent_flag.ok THEN Abort(st, FlagError(transparent_flag, "transparent"))
    ELSE
    LET transparent == transparent_flag.val \/ ctx.transparent_enum
        from_structs == PushFromStruct(st.from_structs, skip_single_from.val,
                                       primitive_type_path, variant_ident, ctx.type_params)
        no_source == Flag(args, "no_source")
    IN
    IF ~no_source.ok THEN Abort(st, FlagError(no_source, "no_source"))
    ELSE
    LET src_ret == IF ~no_source.val THEN SrcRet(args) ELSE SrcOk([t |-> "x", conv |-> NoPath])
    IN
    IF ~src_ret.ok THEN Abort(st, src_ret.diag)
    ELSE [err |-> st.err,
          from_structs |-> from_structs,
          from_enums |-> inl.from_enums,
          err_sources |-> ErrSources(st.err_sources, no_source.val, variant_ident,
                                     transparent, src_ret.ret),
          display_cases |-> Append(st.display_cases,
              DisplayCase(variant_ident, transparent, ctx.title, ctx.description,
                          VariantDisplay(no_source.val, variant_ident)))]

\* `for variant in data.variants` (lib.rs 206): a `return` ends the loop
RECURSIVE Variants(_, _, _, _)
Variants(st, variants, i, ctx) ==
    IF i > Len(variants) \/ st.err # <<>> THEN st
    ELSE Variants(Variant(st, variants[i], ctx), variants, i + 1, ctx)

NoDisplay == [form |-> "none", cases |-> <<>>, title |-> <<>>, description |-> <<>>]

NoErrSource == [form |-> "none", arms |-> <<>>]

Analysed(st, skip_display, skip_error, display, err_source) ==
    [st |-> st, skip_display |-> skip_display, skip_error |-> skip_error,
     display |-> display, err_source |-> err_source]

Failed(diag) == Analysed(Abort(Start, diag), FALSE, FALSE, NoDisplay, NoErrSource)

\* `match input.data` (lib.rs 198-395)
Data(inp, toplevel_args, title, description, skip_display, skip_error) ==
    CASE inp.data = "Enum" ->
            LET transparent_enum == Flag(toplevel_args, "transparent") IN
            IF ~transparent_enum.ok THEN Failed(FlagError(transparent_enum, "transparent"))
            ELSE LET st == Variants(Start, inp.variants, 1,
                                    [type_params |-> inp.type_params,
                                     transparent_enum |-> transparent_enum.val,
                                     title |-> title, description |-> description])
                 IN  Analysed(st, skip_display, skip_error,
                              [form |-> "match", cases |-> st.display_cases,
                               title |-> <<>>, description |-> <<>>],
                              [form |-> "match", arms |-> st.err_sources])
      [] inp.data = "Struct" ->
            Analysed(Start, skip_display, skip_error,
                     [form |-> "write", cases |-> <<>>, title |-> title,
                      description |-> description],
                     [form |-> "None", arms |-> <<>>])
      [] OTHER -> Failed(Error(InputSpan, <<"Can only be used on enums!">>))

\* lib.rs 131-395: everything before the code is put together
Analyse(inp) ==
    LET r == AttrArgsOf(inp.attrs, "compound_error", TypeKeys) IN
    IF ~r.ok THEN Failed(Explain(r.err))
    ELSE
    LET toplevel_args == r.args
        title == Title(toplevel_args, inp.ident)
    IN
    IF ~title.ok THEN Failed(title.diag)
    ELSE
    LET description == Description(toplevel_args) IN
    IF ~description.ok THEN Failed(description.diag)
    ELSE
    LET skip_display == Flag(toplevel_args, "skip_display") IN
    IF ~skip_display.ok THEN Failed(FlagError(skip_display, "skip_display"))
    ELSE
    LET skip_error == Flag(toplevel_args, "skip_error") IN
    IF ~skip_error.ok THEN Failed(FlagError(skip_error, "skip_error"))
    ELSE Data(inp, toplevel_args, title.text, description.text,
              skip_display.val, skip_error.val)

\* an impl block of the generated code for type ident
Impl(kind, ident, body) == [kind |-> kind, for |-> ident, body |-> body]

\* lib.rs 399-410: one From impl per entry of from_structs, in its order
FromStructImpls(from_structs, ident) ==
    [k \in 1..Len(from_structs) |->
        Impl("From", ident, [from |-> PathTokens(from_structs[k].from),
                             param |-> "primitive",
                             cases |-> <<[pat |-> <<>>, pat_variant |-> "",
                                          variant |-> from_structs[k].variant]>>])]

\* Cases that all produce the first variant listed
CasesToFirst(from_enum, variant_idents) ==
    [k \in 1..Len(variant_idents) |->
        [pat |-> PathTokens(PathOrLitPath(from_enum)), pat_variant |-> variant_idents[k],
         variant |-> variant_idents[1]]]

\* lib.rs 413-420: the cases of the match of one flattening conversion
Cases(from_enum, variant_idents) ==
    [k \in 1..Len(variant_idents) |->
        [pat |-> PathTokens(PathOrLitPath(from_enum)), pat_variant |-> variant_idents[k],
         variant |-> variant_idents[k]]]

\* lib.rs 412-434: one From impl per key of from_enums, in the order the
\* iteration over the HashMap yields the keys
FromEnumImpls(from_enums, order, ident) ==
    [k \in 1..Len(order) |->
        Impl("From", ident, [from |-> ToTokens(order[k]),
                             param |-> "composite",
                             cases |-> Cases(order[k], from_enums[order[k]])])]

\* lib.rs 436-445
DisplayImpl(skip_display, display, ident) ==
    IF ~skip_display THEN <<Impl("Display", ident, display)>> ELSE <<>>

\* lib.rs 448-457
ErrorImpl(skip_error, err_source, ident) ==
    IF ~skip_error THEN <<Impl("Error", ident, err_source)>> ELSE <<>>

\* lib.rs 397-459
Generated(a, order, ident) ==
    FromStructImpls(a.st.from_structs, ident)
    \o FromEnumImpls(a.st.from_enums, order, ident)
    \o DisplayImpl(a.skip_display, a.display, ident)
    \o ErrorImpl(a.skip_error, a.err_source, ident)

\* Returned that emits what was accumulated along with the diagnostic
ReturnedWithPartial(a, order, ident) ==
    [diag |-> a.st.err, impls |-> Generated(a, order, ident)]

\* what the macro returns: the compile_error! of the `return error(..)` taken,
\* or the generated code
Returned(a, order, ident) ==
    IF a.st.err # <<>>
    THEN [diag |-> a.st.err, impls |-> <<>>]
    ELSE [diag |-> <<>>, impls |-> Generated(a, order, ident)]

\* the orders in which iterating a HashMap with these keys can yield them
\* (std's RandomState seeds every map anew)
IterOrders(keys) ==
    {o \in [1..Cardinality(keys) -> keys] :
        \A i, j \in 1..Cardinality(keys) : i # j => o[i] # o[j]}

\* derive_compound_error: the outputs it can return for inp
DeriveCompoundError(inp) ==
    LET a == Analyse(inp) IN
    {Returned(a, order, inp.ident) : order \in IterOrders(DOMAIN a.st.from_enums)}

---------------------------------------------------------------------------
(* The generated code, run.  A value of the derived enum is a variant name *)
(* and a payload; payloads are opaque.                                     *)

Value(variant, payload) == [variant |-> variant, payload |-> payload]

\* the payload's own Display output
PayloadText(payload) == <<"{", payload, "}">>

\* the first arm of a match that takes the value, 0 when only `_` does
RECURSIVE FirstArm(_, _, _)
FirstArm(arms, i, variant) ==
    IF i > Len(arms) THEN 0
    ELSE IF arms[i].variant = variant THEN i
    ELSE FirstArm(arms, i + 1, variant)

\* the generated Error::source on a value (lib.rs 340, 344, 378-383, 390)
SourceOf(err_source, value) ==
    IF err_source.form = "None" THEN [t |-> "None", conv |-> NoPath, of |-> ""]
    ELSE LET k == FirstArm(err_source.arms, 1, value.variant) IN
         IF k = 0 THEN [t |-> "None", conv |-> NoPath, of |-> ""]
         ELSE CASE err_source.arms[k].t = "source_of_x" ->
                       [t |-> "SourceOfPayload", conv |-> NoPath, of |-> value.payload]
                [] err_source.arms[k].t = "some_x" ->
                       [t |-> "Payload", conv |-> NoPath, of |-> value.payload]
                [] err_source.arms[k].t = "some_call" ->
                       [t |-> "Converted", conv |-> err_source.arms[k].conv,
                        of |-> value.payload]

\* the literal text of `write!(f, "  \u2514 {}", ..)` before the argument
\* (lib.rs 361), with the box-drawing corner written in ASCII
BranchMarker == "  +- "

\* the generated Display::fmt on a value: the text written
\* (lib.rs 353-355, 359-362, 367-376, 386-388)
Render(display, value) ==
    IF display.form = "write" THEN display.title \o display.description
    ELSE LET k == FirstArm(display.cases, 1, value.variant) IN
         IF k = 0 THEN <<>>
         ELSE IF display.cases[k].t = "forward" THEN PayloadText(value.payload)
         ELSE display.cases[k].title \o display.cases[k].description \o <<":", "\n">>
              \o <<BranchMarker>>
              \o (IF display.cases[k].variant_display.lit
                  THEN display.cases[k].variant_display.text
                  ELSE PayloadText(value.payload))

\* the first case of a flattening conversion that takes a value of the
\* source enum, 0 when none does (the generated match has no `_` arm)
RECURSIVE FirstCase(_, _, _)
FirstCase(cases, i, variant) ==
    IF i > Len(cases) THEN 0
    ELSE IF cases[i].pat_variant = variant THEN i
    ELSE FirstCase(cases, i + 1, variant)

\* the generated From<R>::from on a value of R (lib.rs 417-419, 425-429)
Flatten(body, value) ==
    LET k == FirstCase(body.cases, 1, value.variant) IN
    IF k = 0 THEN [matched |-> FALSE, value |-> Value("", "")]
    ELSE [matched |-> TRUE, value |-> Value(body.cases[k].variant, value.payload)]

---------------------------------------------------------------------------
(* The inputs.                                                             *)

\* shorthands for the entries of an annotation group
K(name) == MetaPath(Ident(name))

KL(name, values) == MetaList(Ident(name), values)

KV(name, text) == MetaNameValue(Ident(name), LitStr(text))

Str(text) == NestedLit(LitStr(text))

Num == NestedLit(LitOther)

\* the variant names of the derived enum, by position, and the payload
\* value a test value carries
VariantIdents == <<"Foo", "Goo", "Bar", "Baz">>

\* the enums of the rest of the crate that inline_from can name, with
\* their variants (the macro never sees them)
OtherEnums ==
    [CompoundFoo |-> {"Foo", "Bar", "Other"},
     CompoundGoo |-> {"Foo", "Goo"},
     OtherType |-> {"P", "Q"}]

\* annotation lists of the type: every directive well-formed
TypeAttrsGood ==
    { <<>>,
      <<Group(<<KV("title", <<"Compound Bar">>),
                KV("description", <<"compound bar error">>)>>)>>,
      <<Group(<<K("transparent")>>)>>,
      <<Group(<<K("skip_display")>>)>>,
      <<Group(<<K("skip_error")>>), Group(<<KL("title", <<Str(<<"T1">>)>>)>>)>>,
      <<MkAttr(Ident("derive"), "List", <<K("Debug")>>),
        MkAttr(Ident("compound_error"), "Path", <<>>)>> }

\* annotation lists of the type: something is wrong
TypeAttrsBad ==
    { <<Group(<<K("title")>>)>>,
      <<Group(<<KL("title", <<Str(<<"T1">>), Str(<<"T2">>)>>)>>)>>,
      <<Group(<<MetaNameValue(Ident("title"), LitOther)>>)>>,
      <<Group(<<K("description")>>)>>,
      <<Group(<<KL("description", <<K("x")>>)>>)>>,
      <<Group(<<KL("skip_display", <<K("x")>>)>>)>>,
      <<Group(<<KV("skip_error", <<"x">>)>>)>>,
      <<Group(<<KL("transparent", <<K("x")>>)>>)>>,
      <<Group(<<K("no_source")>>)>>,
      <<Group(<<K("skip_error")>>), Group(<<K("skip_error")>>)>>,
      <<MkAttr(Ident("compound_error"), "NameValue", <<>>)>>,
      <<MkAttr(Ident("compound_error"), "Err", <<>>)>> }

\* annotation lists of a variant: the directives about the cause and the rendering
VariantAttrsSource ==
    { <<>>,
      <<Group(<<K("no_source")>>)>>,
      <<Group(<<K("transparent")>>)>>,
      <<Group(<<KL("convert_source", <<K("f")>>)>>)>>,
      <<Group(<<K("no_source"), K("transparent")>>)>>,
      <<Group(<<K("no_source")>>), Group(<<KL("convert_source", <<K("f")>>)>>)>>,
      <<Group(<<K("transparent"), KL("convert_source", <<K("f")>>)>>)>>,
      <<Group(<<K("skip_single_from")>>)>> }

\* annotation lists of a variant: inline_from
VariantAttrsInline ==
    { <<Group(<<KL("inline_from", <<K("CompoundGoo")>>)>>)>>,
      <<Group(<<KL("inline_from", <<Str(<<"CompoundFoo", "<", "T", ">">>)>>)>>)>>,
      <<Group(<<KL("inline_from", <<Str(<<"CompoundFoo", "<", "T", ">">>),
                                    K("CompoundGoo")>>)>>)>>,
      <<Group(<<KL("inline_from", <<Str(<<"CompoundGoo">>)>>)>>)>>,
      <<Group(<<KL("inline_from", <<K("CompoundGoo"), K("CompoundGoo")>>)>>)>>,
      <<Group(<<KL("inline_from", <<K("OtherType")>>)>>)>>,
      <<Group(<<KL("inline_from", <<K("CompoundFoo")>>)>>)>> }

\* annotation lists of a variant: something is wrong
VariantAttrsBad ==
    { <<Group(<<K("convert_source")>>)>>,
      <<Group(<<K("no_source"), K("convert_source")>>)>>,
      <<Group(<<KL("no_source", <<K("x")>>)>>)>>,
      <<Group(<<KL("transparent", <<K("x")>>)>>)>>,
      <<Group(<<KL("skip_single_from", <<K("x")>>)>>)>>,
      <<Group(<<K("inline_from")>>)>>,
      <<Group(<<KL("inline_from", <<Num>>)>>)>>,
      <<Group(<<KL("inline_from", <<Str(<<"not", "a", "type">>)>>)>>)>>,
      <<Group(<<K("title")>>)>> }

\* the fields of a variant: style, number, and the type of the first
\* ("own": a type named like the variant, as in basic.rs)
Shape(fields, nfields, kind, path) ==
    [fields |-> fields, nfields |-> nfields, ty |-> [kind |-> kind, path |-> path]]

OwnType == Shape("Unnamed", 1, "Path", Ident("own"))

ShapesGood ==
    { OwnType,
      Shape("Unnamed", 1, "Path", Ident("T")),
      Shape("Unnamed", 1, "Path", MkPath(FALSE, <<"Wrap">>, <<"T">>)),
      Shape("Unnamed", 1, "Path", MkPath(FALSE, <<"crate", "T">>, <<>>)),
      Shape("Unnamed", 1, "Path", MkPath(FALSE, <<"T">>, <<"X">>)) }

ShapesBad ==
    { Shape("Unit", 0, "Path", NoPath),
      Shape("Named", 1, "Path", Ident("own")),
      Shape("Unnamed", 1, "Reference", NoPath) }

Choice(shape, as) == [shape |-> shape, attrs |-> as]

\* what a variant can be
VariantChoices ==
    {Choice(OwnType, as) : as \in VariantAttrsSource \cup VariantAttrsInline \cup VariantAttrsBad}
    \cup {Choice(sh, <<>>) : sh \in ShapesGood \cup ShapesBad}
    \cup {Choice(Shape("Unnamed", 1, "Path", Ident("T")), as) :
            as \in { <<Group(<<K("skip_single_from")>>)>>,
                     <<Group(<<K("no_source")>>)>>,
                     <<Group(<<KL("inline_from", <<Str(<<"CompoundFoo", "<", "T", ">">>)>>)>>)>> }}

\* a few of them, for the inputs that vary the type's own annotations
VariantChoicesFew ==
    { Choice(OwnType, <<>>),
      Choice(OwnType, <<Group(<<K("no_source")>>)>>),
      Choice(OwnType, <<Group(<<KL("inline_from", <<K("CompoundGoo")>>)>>)>>) }

\* the i-th variant of the input
VariantAt(i, choice) ==
    [ident |-> VariantIdents[i],
     fields |-> choice.shape.fields,
     nfields |-> choice.shape.nfields,
     ty |-> IF choice.shape.ty.path = Ident("own")
            THEN [kind |-> choice.shape.ty.kind, path |-> Ident(VariantIdents[i])]
            ELSE choice.shape.ty,
     attrs |-> Spanned(i, choice.attrs)]

DeriveInput(ident, type_params, as, data, choices) ==
    [ident |-> ident,
     type_params |-> type_params,
     attrs |-> Spanned(0, as),
     data |-> data,
     variants |-> [i \in 1..Len(choices) |-> VariantAt(i, choices[i])]]

SeqsUpTo(S, n) == UNION {[1..k -> S] : k \in 0..n}

Titled == <<Group(<<KV("title", <<"Compound Bar">>), KV("description", <<"compound bar error">>)>>)>>

\* the inputs of the model: records and unions with every type-level
\* annotation list; enums with every type-level list over a few variants,
\* transparent and titled enums over the variants that direct the cause and
\* the rendering, and a generic enum without annotations over every variant
Inputs ==
    {DeriveInput("Foo", <<>>, as, data, <<>>) :
        as \in TypeAttrsGood \cup TypeAttrsBad, data \in {"Struct", "Union"}}
    \cup {DeriveInput("CompoundBar", tp, as, "Enum", choices) :
            tp \in {<<>>, <<"T">>},
            as \in TypeAttrsGood \cup TypeAttrsBad,
            choices \in SeqsUpTo(VariantChoicesFew, MaxVariants)}
    \cup {DeriveInput("CompoundBar", <<"T">>, as, "Enum", choices) :
            as \in {Titled, <<Group(<<K("transparent")>>)>>},
            choices \in SeqsUpTo({Choice(OwnType, va) : va \in VariantAttrsSource}, MaxVariants)}
    \cup {DeriveInput("CompoundBar", <<"T">>, <<>>, "Enum", choices) :
            choices \in SeqsUpTo(VariantChoices, MaxVariants)}

\* the entries of the annotation lists handed to attr_args alone
AttrEntries ==
    { K("transparent"),
      KV("title", <<"t">>),
      KL("inline_from", <<K("R")>>),
      MetaPath(MkPath(FALSE, <<"a", "transparent">>, <<>>)),
      Str(<<"x">>) }

\* attributes that are no list of the required name
SpecialAttrs ==
    { MkAttr(Ident("doc"), "NameValue", <<>>),
      MkAttr(MkPath(FALSE, <<"a", "compound_error">>, <<>>), "List", <<K("bogus")>>),
      MkAttr(Ident("compound_error"), "Err", <<>>),
      MkAttr(Ident("compound_error"), "NameValue", <<>>),
      MkAttr(Ident("compound_error"), "Path", <<>>) }

\* the attributes that count k entries: the groups of k entries, and for
\* k = 0 also the attributes that are no list of the required name
AttrsOfSize(k) ==
    {Group(es) : es \in [1..k -> AttrEntries]} \cup (IF k = 0 THEN SpecialAttrs ELSE {})

\* the annotation lists of at most n attributes whose groups hold at most
\* e entries together
RECURSIVE AttrLists(_, _)
AttrLists(n, e) ==
    IF n = 0 THEN {<<>>}
    ELSE {<<>>} \cup UNION {
            {<<a>> \o rest : a \in AttrsOfSize(k), rest \in AttrLists(n - 1, e - k)} :
                k \in 0..e}

---------------------------------------------------------------------------
(* The expansion of one type definition, twice.                            *)

NoOutput == [diag |-> <<>>, impls |-> <<>>]

Pending == [ok |-> FALSE, args |-> EmptyMap, err |-> [kind |-> "Pending", span |-> <<>>]]

Init ==
    /\ input \in Inputs
    /\ output = NoOutput
    /\ prev = NoOutput
    /\ pc = "start"
    /\ attrs = <<>>
    /\ known = {}
    /\ parsed = Pending

\* the compiler expands the derive on the type definition
Derive ==
    /\ pc \in {"start", "once"}
    /\ output' \in DeriveCompoundError(input)
    /\ prev' = output
    /\ pc' = IF pc = "start" THEN "once" ELSE "twice"
    /\ UNCHANGED <<input, attrs, known, parsed>>

Next == Derive

Spec == Init /\ [][Next]_vars

---------------------------------------------------------------------------
(* attr_args on an annotation list.                                        *)

InitAttrArgs ==
    /\ attrs \in {Spanned(0, as) : as \in AttrLists(MaxAttrs, MaxEntries)}
    /\ known \in {TypeKeys, VariantKeys}
    /\ parsed = Pending
    /\ input = DeriveInput("Foo", <<>>, <<>>, "Struct", <<>>)
    /\ output = NoOutput
    /\ prev = NoOutput
    /\ pc = "start"

AttrArgs ==
    /\ parsed = Pending
    /\ parsed' = AttrArgsOf(attrs, "compound_error", known)
    /\ UNCHANGED <<input, output, prev, pc, attrs, known>>

NextAttrArgs == AttrArgs

SpecAttrArgs == InitAttrArgs /\ [][NextAttrArgs]_vars

---------------------------------------------------------------------------
(* What the type definition says, read off the input directly.             *)

Done == pc # "start"

Accepted == Done /\ output.diag = <<>>

\* the places <<ai, i>> of the entries written in the groups of an annotation list
Written(as) ==
    {p \in (1..Len(as)) \X (1..MaxEntries + 2) :
        /\ as[p[1]].path = Ident("compound_error")
        /\ as[p[1]].meta = "List"
        /\ p[2] <= Len(as[p[1]].nested)}

\* the places where directive key is written
WrittenAs(as, key) ==
    {p \in Written(as) :
        /\ as[p[1]].nested[p[2]].nm # "Lit"
        /\ as[p[1]].nested[p[2]].path = Ident(key)}

HasKey(as, key) == WrittenAs(as, key) # {}

\* the arguments a directive was written with
ArgsAt(as, p) ==
    LET e == as[p[1]].nested[p[2]] IN
    IF e.nm = "NameValue" THEN <<NestedLit(e.lit)>> ELSE e.nested

ArgsOfKey(as, key) == ArgsAt(as, CHOOSE p \in WrittenAs(as, key) : TRUE)

IsString(arg) == arg.nm = "Lit" /\ arg.lit.isStr

VariantNos == 1..Len(input.variants)

IsTransparent(v) == HasKey(v.attrs, "transparent") \/ HasKey(input.attrs, "transparent")

\* the base type of the payload is one of the type's generic parameters
BaseIsTypeParam(path) ==
    /\ ~path.lead
    /\ Len(path.segs) = 1
    /\ \E k \in 1..Len(input.type_params) : input.type_params[k] = path.segs[1]

\* Rust accepts no generic arguments on a type parameter
WellFormedRust == \A i \in VariantNos :
    ~(BaseIsTypeParam(input.variants[i].ty.path) /\ input.variants[i].ty.path.args # <<>>)

ImplsOf(kind) == SelectSeq(output.impls, LAMBDA m : m.kind = kind)

SingleImpls == SelectSeq(output.impls,
                         LAMBDA m : m.kind = "From" /\ m.body.param = "primitive")

FlattenImpls == SelectSeq(output.impls,
                          LAMBDA m : m.kind = "From" /\ m.body.param = "composite")

\* the inline_from targets of a variant, as written, and the text of one
Targets(v) == IF HasKey(v.attrs, "inline_from") THEN ArgsOfKey(v.attrs, "inline_from") ELSE <<>>

TargetText(arg) == IF arg.nm = "Lit" THEN arg.lit.text ELSE PathTokens(arg.path)

\* the occurrences <<variant, k>> of a target text in the inline_from lists
Occurrences(text) ==
    {o \in VariantNos \X (1..MaxEntries + 2) :
        /\ o[2] <= Len(Targets(input.variants[o[1]]))
        /\ TargetText(Targets(input.variants[o[1]])[o[2]]) = text}

TargetTexts ==
    {TargetText(Targets(input.variants[o[1]])[o[2]]) :
        o \in {o \in VariantNos \X (1..MaxEntries + 2) :
                  o[2] <= Len(Targets(input.variants[o[1]]))}}

\* the local variants that list the target with this text
Listers(text) == {input.variants[o[1]].ident : o \in Occurrences(text)}

\* the name of the type a target text names, without its generic arguments
BaseName(text) ==
    IF \E i \in 1..Len(text) : text[i] = "<"
    THEN text[(CHOOSE i \in 1..Len(text) :
                  text[i] = "<" /\ \A j \in 1..(i - 1) : text[j] # "<") - 1]
    ELSE text[Len(text)]

OtherNames == {"CompoundFoo", "CompoundGoo", "OtherType"}

AllVariantNames ==
    {VariantIdents[i] : i \in 1..Len(VariantIdents)}
    \cup UNION {OtherEnums[n] : n \in OtherNames}

---------------------------------------------------------------------------
(* C1 *)

Eligible(v) == ~HasKey(v.attrs, "skip_single_from") /\ ~BaseIsTypeParam(v.ty.path)

---------------------------------------------------------------------------
(* C2 *)

None == [t |-> "None", conv |-> NoPath, of |-> ""]

ExpectedSource(v, payload) ==
    IF HasKey(v.attrs, "no_source") THEN None
    ELSE IF IsTransparent(v) THEN [t |-> "SourceOfPayload", conv |-> NoPath, of |-> payload]
    ELSE IF HasKey(v.attrs, "convert_source")
    THEN [t |-> "Converted", conv |-> ArgsOfKey(v.attrs, "convert_source")[1].path,
          of |-> payload]
    ELSE [t |-> "Payload", conv |-> NoPath, of |-> payload]

\* C2: unless skip_error is set, the generated Error::source returns, per
\* variant: nothing if no_source is set (whatever else is set); otherwise the
\* payload's own source if the variant or the type is transparent (without
\* convert_source); otherwise the payload, passed through convert_source if
\* given.  For a record it returns nothing.
C2_Source ==
    (Accepted /\ ~HasKey(input.attrs, "skip_error")) =>
        /\ Len(ImplsOf("Error")) = 1
        /\ \A payload \in {"x", "y"} :
             IF input.data = "Struct"
             THEN \A name \in AllVariantNames :
                    SourceOf(ImplsOf("Error")[1].body, Value(name, payload)) = None
             ELSE \A i \in VariantNos :
                    SourceOf(ImplsOf("Error")[1].body,
                             Value(input.variants[i].ident, payload))
                      = ExpectedSource(input.variants[i], payload)

\* an accepted enum with a variant that sets no_source and transparent, and
\* one that sets convert_source alone
C2_Witness ==
    /\ Accepted /\ ~HasKey(input.attrs, "skip_error") /\ input.data = "Enum"
    /\ \E i, j \in VariantNos :
          /\ HasKey(input.variants[i].attrs, "no_source")
          /\ HasKey(input.variants[i].attrs, "transparent")
          /\ HasKey(input.variants[j].attrs, "convert_source")
          /\ ~IsTransparent(input.variants[j])
          /\ SourceOf(ImplsOf("Error")[1].body, Value(input.variants[j].ident, "x")).t
               = "Converted"

---------------------------------------------------------------------------
(* C3 *)

ExpectedTitle ==
    IF HasKey(input.attrs, "title") THEN ArgsOfKey(input.attrs, "title")[1].lit.text
    ELSE <<input.ident>>

ExpectedDescription ==
    IF HasKey(input.attrs, "description")
    THEN <<" (">> \o ArgsOfKey(input.attrs, "description")[1].lit.text \o <<")">>
    ELSE <<>>

ExpectedText(v, payload) ==
    IF IsTransparent(v) THEN PayloadText(payload)
    ELSE ExpectedTitle \o ExpectedDescription \o <<":">>
         \o <<"\n">>
         \o <<BranchMarker>>
         \o (IF HasKey(v.attrs, "no_source") THEN <<v.ident>> ELSE PayloadText(payload))

\* C3: unless skip_display is set, a value of a transparent variant (by its
\* own flag or the type's) renders exactly as its payload, also with
\* no_source; any other renders as the header "{title}{description}:", a
\* line break, and one branch line: the marker and the variant's name if
\* no_source is set, the payload's text if not.
C3_Rendering ==
    (Accepted /\ input.data = "Enum" /\ ~HasKey(input.attrs, "skip_display")) =>
        /\ Len(ImplsOf("Display")) = 1
        /\ \A payload \in {"x", "y"} : \A i \in VariantNos :
              Render(ImplsOf("Display")[1].body, Value(input.variants[i].ident, payload))
                = ExpectedText(input.variants[i], payload)

\* an accepted enum with a title and a description, a variant with
\* no_source and one without
C3_Witness ==
    /\ Accepted /\ input.data = "Enum" /\ ~HasKey(input.attrs, "skip_display")
    /\ HasKey(input.attrs, "title") /\ HasKey(input.attrs, "description")
    /\ ~HasKey(input.attrs, "transparent")
    /\ \E i, j \in VariantNos :
          /\ HasKey(input.variants[i].attrs, "no_source")
          /\ ~HasKey(input.variants[i].attrs, "transparent")
          /\ ~HasKey(input.variants[j].attrs, "no_source")
          /\ Render(ImplsOf("Display")[1].body, Value(input.variants[i].ident, "x"))
               = <<"Compound Bar", " (", "compound bar error", ")", ":", "\n",
                   BranchMarker, input.variants[i].ident>>

---------------------------------------------------------------------------
(* C4 *)

FlattenNos == 1..Len(FlattenImpls)

\* C4 as claimed: when one local variant D lists R, the flattening
\* conversion from R maps the values of every variant of R into D.
C4_EveryVariantIntoLister ==
    Accepted =>
        \A n \in FlattenNos :
            LET body == FlattenImpls[n].body IN
            (BaseName(body.from) \in OtherNames /\ Cardinality(Listers(body.from)) = 1) =>
                \A rv \in OtherEnums[BaseName(body.from)] :
                    LET f == Flatten(body, Value(rv, "x")) IN
                    /\ f.matched
                    /\ f.value.variant \in Listers(body.from)
                    /\ f.value.payload = "x"

\* C4 as amended: a flattening conversion from R takes a value R::V only
\* into the local variant of the same name V, and only if V lists R; it has
\* no case for a value of any other variant of R.  Every local variant that
\* lists R is reached this way.
C4_SameNameOnly ==
    Accepted =>
        LET impls == FlattenImpls IN
        /\ \A n \in 1..Len(impls) :
              LET body == impls[n].body
                  listers == Listers(body.from)
              IN  \A rv \in AllVariantNames :
                      LET f == Flatten(body, Value(rv, "x")) IN
                      /\ f.matched => (f.value = Value(rv, "x") /\ rv \in listers)
                      /\ (rv \notin listers) => ~f.matched
        /\ \A text \in TargetTexts : \A d \in Listers(text) :
              \E n \in 1..Len(impls) :
                  /\ impls[n].body.from = text
                  /\ Flatten(impls[n].body, Value(d, "x")) =
                        [matched |-> TRUE, value |-> Value(d, "x")]

\* an accepted enum whose variant Foo alone lists OtherType, which has the
\* variants P and Q: its values find no case
C4_Witness ==
    /\ Accepted
    /\ \E n \in FlattenNos :
          /\ FlattenImpls[n].body.from = <<"OtherType">>
          /\ Listers(<<"OtherType">>) = {"Foo"}
          /\ \A rv \in OtherEnums["OtherType"] :
                ~Flatten(FlattenImpls[n].body, Value(rv, "x")).matched
          /\ Flatten(FlattenImpls[n].body, Value("Foo", "x")).matched

---------------------------------------------------------------------------
(* C5 *)

\* a directive of the type written with arguments of the wrong number or shape
BadTypeDirective(as, p) ==
    LET e == as[p[1]].nested[p[2]]
        args == ArgsAt(as, p)
    IN  /\ e.nm # "Lit"
        /\ \/ /\ e.path \in {Ident("title"), Ident("description")}
              /\ ~(Len(args) = 1 /\ IsString(args[1]))
           \/ /\ e.path \in {Ident("skip_display"), Ident("skip_error"), Ident("transparent")}
              /\ args # <<>>

IsTypeRef(arg) == arg.nm = "Path" \/ (IsString(arg) /\ ParseTypePath(arg.lit.text).ok)

\* a directive of a variant written with arguments of the wrong number or shape
BadVariantDirective(as, p) ==
    LET e == as[p[1]].nested[p[2]]
        args == ArgsAt(as, p)
    IN  /\ e.nm # "Lit"
        /\ \/ /\ e.path \in {Ident("skip_single_from"), Ident("no_source"), Ident("transparent")}
              /\ args # <<>>
           \/ /\ e.path = Ident("inline_from")
              /\ (args = <<>> \/ \E k \in 1..Len(args) : ~IsTypeRef(args[k]))
           \/ /\ e.path = Ident("convert_source")
              /\ ~(Len(args) = 1 /\ args[1].nm = "Path")

HasBadDirective ==
    \/ \E p \in Written(input.attrs) : BadTypeDirective(input.attrs, p)
    \/ \E i \in VariantNos : \E p \in Written(input.variants[i].attrs) :
          BadVariantDirective(input.variants[i].attrs, p)

\* C5 as claimed: an input with a directive whose arguments have the wrong
\* number or shape is rejected with a diagnostic, whatever else it holds.
C5_BadDirectiveRejected ==
    (Done /\ HasBadDirective) => Len(output.diag) = 1

---------------------------------------------------------------------------
(* C6 *)

Parsed == parsed # Pending

Recognised(e) == e.path \in {Ident(k) : k \in known}

\* the places of an annotation list where attr_args has to fail: <<ai, 0>>
\* for an attribute of the required name that is no meta or a name-value
\* pair, <<ai, i>> for an entry that is a literal, an unrecognized key, or a
\* recognized key written before
Places ==
    {p \in (1..Len(attrs)) \X {0} :
        attrs[p[1]].path = Ident("compound_error") /\ attrs[p[1]].meta \in {"Err", "NameValue"}}
    \cup Written(attrs)

Before(p, q) == p[1] < q[1] \/ (p[1] = q[1] /\ p[2] < q[2])

FailureAt(p) ==
    IF p[2] = 0
    THEN IF attrs[p[1]].meta = "Err" THEN "NoMeta" ELSE "NoNestedMeta"
    ELSE LET e == attrs[p[1]].nested[p[2]] IN
         IF e.nm = "Lit" THEN "LitArg"
         ELSE IF ~Recognised(e) THEN "InvalidArg"
         ELSE IF \E q \in Written(attrs) :
                    Before(q, p) /\ attrs[q[1]].nested[q[2]].nm # "Lit"
                    /\ attrs[q[1]].nested[q[2]].path = e.path
              THEN "DupliateArg"
         ELSE "None"

Failures == {p \in Places : FailureAt(p) # "None"}

FirstFailure == CHOOSE p \in Failures : \A q \in Failures : q = p \/ Before(p, q)

SpanOf(p) == IF p[2] = 0 THEN <<0, p[1]>> ELSE <<0, p[1], p[2]>>

\* C6: attr_args fails, or returns a map whose keys are all in the
\* allow-list and were each written exactly once in the groups of the
\* required name (with the arguments written there).  It fails exactly when
\* some place has to fail, and then with the failure of the first such
\* place, at its span: the unrecognized-key failure for a key outside the
\* allow-list, the duplicate-key failure for a recognized key written a
\* second time, in the same group or a later one.
C6_AttrArgs ==
    Parsed =>
        IF Failures = {}
        THEN /\ parsed.ok
             /\ \A k \in DOMAIN parsed.args :
                   /\ k \in known
                   /\ Cardinality(WrittenAs(attrs, k)) = 1
                   /\ parsed.args[k].values = ArgsOfKey(attrs, k)
                   /\ parsed.args[k].path = Ident(k)
             /\ \A p \in Written(attrs) :
                   attrs[p[1]].nested[p[2]].path.segs[1] \in DOMAIN parsed.args
        ELSE /\ ~parsed.ok
             /\ parsed.err.kind = FailureAt(FirstFailure)
             /\ parsed.err.span = SpanOf(FirstFailure)

\* a recognized key written in one group and again in a later one, with
\* nothing failing before: the duplicate-key failure, at the second place
C6_Witness ==
    /\ Parsed /\ ~parsed.ok
    /\ parsed.err.kind = "DupliateArg"
    /\ Len(attrs) = 2
    /\ parsed.err.span = <<0, 2, 1>>
    /\ Cardinality(Written(attrs)) = 2

---------------------------------------------------------------------------
(* C7 *)

\* the payload is, as written, exactly one of the type's generic parameters
IsTypeParam(path) == path \in {Ident(input.type_params[k]) : k \in 1..Len(input.type_params)}

\* every implementation the input asks for is there
Complete ==
    /\ Len(ImplsOf("Display")) = IF HasKey(input.attrs, "skip_display") THEN 0 ELSE 1
    /\ Len(ImplsOf("Error")) = IF HasKey(input.attrs, "skip_error") THEN 0 ELSE 1
    /\ \A i \in VariantNos :
          (~HasKey(input.variants[i].attrs, "skip_single_from")
           /\ ~IsTypeParam(input.variants[i].ty.path)) =>
              \E k \in 1..Len(SingleImpls) :
                  SingleImpls[k].body.cases[1].variant = input.variants[i].ident
    /\ \A text \in TargetTexts : \E n \in FlattenNos : FlattenImpls[n].body.from = text
    /\ Len(output.impls) = Len(SingleImpls) + Len(FlattenImpls)
                           + Len(ImplsOf("Display")) + Len(ImplsOf("Error"))

\* C7: the output is either exactly one diagnostic with a span and a
\* message and no implementation at all, or every implementation and no
\* diagnostic.
C7_AllOrNothing ==
    Done =>
        \/ /\ Len(output.diag) = 1
           /\ output.diag[1].span # <<>>
           /\ output.diag[1].message # <<>>
           /\ output.impls = <<>>
        \/ /\ output.diag = <<>>
           /\ Complete

\* a rejected enum whose first variant is sound, asks for a conversion
\* and a flattening, and whose second variant is where the failure is
C7_Witness ==
    /\ Done /\ input.data = "Enum" /\ Len(input.variants) = 2
    /\ Len(output.diag) = 1 /\ output.diag[1].span[1] = 2
    /\ output.impls = <<>>
    /\ ~HasKey(input.attrs, "skip_display")
    /\ Targets(input.variants[1]) # <<>>
    /\ ~HasKey(input.variants[1].attrs, "skip_single_from")
    /\ ~IsTypeParam(input.variants[1].ty.path)

---------------------------------------------------------------------------
(* C8 *)

\* the local variants listing the target with this text take every variant
\* of the enum it names exactly once
CoveredOnce(text) ==
    \A rv \in OtherEnums[BaseName(text)] :
        Cardinality({o \in Occurrences(text) : input.variants[o[1]].ident = rv}) = 1

\* C8 as claimed: an input whose mappings for a target R do not cover every
\* variant of R exactly once is rejected with a diagnostic.
C8_CoverageEnforced ==
    (Done /\ \E text \in TargetTexts :
                 BaseName(text) \in OtherNames /\ ~CoveredOnce(text))
        => Len(output.diag) = 1

RECURSIVE SumCases(_, _, _)
SumCases(impls, n, text) ==
    IF n = 0 THEN 0
    ELSE SumCases(impls, n - 1, text)
         + (IF impls[n].body.from = text THEN Len(impls[n].body.cases) ELSE 0)

\* C8 as amended: coverage is not checked.  An accepted input gets, for
\* every target R, flattening conversions with one case for each time R is
\* listed: a target listed twice by a variant gives the case twice, a
\* variant of R that no local variant of its name lists gives no case, and
\* neither is rejected.
C8_CoverageNotChecked ==
    Accepted =>
        /\ \A text \in TargetTexts :
              SumCases(FlattenImpls, Len(FlattenImpls), text) = Cardinality(Occurrences(text))
        /\ \A n \in FlattenNos : FlattenImpls[n].body.from \in TargetTexts

\* an accepted enum whose only variant Foo lists CompoundGoo twice: Foo is
\* taken twice and Goo never
C8_Witness ==
    /\ Accepted /\ Len(input.variants) = 1
    /\ Cardinality(Occurrences(<<"CompoundGoo">>)) = 2
    /\ ~CoveredOnce(<<"CompoundGoo">>)
    /\ \E n \in FlattenNos :
          /\ Len(FlattenImpls[n].body.cases) = 2
          /\ ~Flatten(FlattenImpls[n].body, Value("Goo", "x")).matched

---------------------------------------------------------------------------
(* C9 *)

\* C9 as claimed: the targets with the same text, written as a path or as
\* a string literal, make one flattening conversion, and targets with
\* different texts make different ones: there are as many flattening
\* conversions as target texts.
C9_GroupedByText ==
    Accepted => Len(FlattenImpls) = Cardinality(TargetTexts)

---------------------------------------------------------------------------
(* C10 *)

\* C10 as claimed: two expansions of the same type definition return the
\* same output.
C10_Deterministic ==
    (pc = "twice") => output = prev

---------------------------------------------------------------------------
(* C11 *)

\* an inline_from target as written: a string literal or a path, and its text
AsWritten(arg) == <<arg.nm = "Lit", TargetText(arg)>>

WrittenTargets ==
    {AsWritten(Targets(input.variants[o[1]])[o[2]]) :
        o \in {o \in VariantNos \X (1..MaxEntries + 2) :
                  o[2] <= Len(Targets(input.variants[o[1]]))}}

\* the text of a target up to its generic arguments
Erased(text) ==
    IF \E i \in 1..Len(text) : text[i] = "<"
    THEN SubSeq(text, 1, (CHOOSE i \in 1..Len(text) :
                             text[i] = "<" /\ \A j \in 1..(i - 1) : text[j] # "<") - 1)
    ELSE text

\* the cases the variants 1..n ask of the conversion from the target w: one
\* for each time the variant lists w, the variants in declaration order
RECURSIVE ExpectedCases(_, _)
ExpectedCases(w, n) ==
    IF n = 0 THEN <<>>
    ELSE LET v == input.variants[n]
             listed == SelectSeq(Targets(v), LAMBDA arg : AsWritten(arg) = w)
         IN  ExpectedCases(w, n - 1)
             \o [k \in 1..Len(listed) |->
                    [pat |-> Erased(w[2]), pat_variant |-> v.ident, variant |-> v.ident]]

\* C11: for every inline_from target R of an accepted type there is one
\* flattening conversion, implemented for R with its generic arguments
\* kept; its cases are exactly one per occurrence of R in the inline_from
\* lists, in the order the variants are declared, each matching the variant
\* of R (R named without its generic arguments) that bears the name of the
\* listing variant V and giving V with the same payload; a value of any
\* other variant of R finds no case.
C11_FlatteningCases ==
    Accepted =>
        LET impls == FlattenImpls IN
        /\ Len(impls) = Cardinality(WrittenTargets)
        /\ \A w \in WrittenTargets :
              LET cases == ExpectedCases(w, Len(input.variants)) IN
              Cardinality({n \in 1..Len(impls) :
                              impls[n].body.from = w[2] /\ impls[n].body.cases = cases})
                = Cardinality({u \in WrittenTargets :
                                  u[2] = w[2] /\ ExpectedCases(u, Len(input.variants)) = cases})
        /\ \A n \in 1..Len(impls) : \A rv \in AllVariantNames :
              LET body == impls[n].body
                  f == Flatten(body, Value(rv, "x"))
              IN  f.matched <=>
                     /\ \E k \in 1..Len(body.cases) : body.cases[k].pat_variant = rv
                     /\ f.value = Value(rv, "x")

\* an accepted enum whose variants Foo and Goo, in this order, both list
\* the target CompoundFoo<T>: the conversion is implemented for
\* CompoundFoo<T>, matches CompoundFoo::Foo and then CompoundFoo::Goo, and
\* has no case for CompoundFoo::Other
C11_Witness ==
    /\ Accepted
    /\ \E n \in FlattenNos :
          LET body == FlattenImpls[n].body IN
          /\ body.from = <<"CompoundFoo", "<", "T", ">">>
          /\ Len(body.cases) = 2
          /\ body.cases[1] = [pat |-> <<"CompoundFoo">>, pat_variant |-> "Foo", variant |-> "Foo"]
          /\ body.cases[2].pat = <<"CompoundFoo">>
          /\ body.cases[2].pat_variant # "Foo"
          /\ ~Flatten(body, Value("Other", "x")).matched


============================================================================
